---- MODULE Spec2Model ----
(***************************************************************************)
(* Model of blocks/bricks/conv.py: the Convolutional, MaxPooling,          *)
(* ConvolutionalLayer and Flattener bricks.                                *)
(*                                                                         *)
(* A tensor is a record [shape, data]: shape is the tuple of dimension     *)
(* sizes and data the elements in row-major (C) order.  The tensor         *)
(* primitives the bricks call (conv2d, max_pool_2d, ConvOp.getOutputShape, *)
(* DownsampleFactorMax.out_shape, reshape) are operators that compute what *)
(* the primitives compute on such tensors.                                 *)
(***************************************************************************)
EXTENDS Integers, Sequences, FiniteSets, TLC

\* ---------------------------------------------------------------- bounds
MaxFilter == 2
MaxImage == 3
MaxStep == 2
MaxNum == 2
MaxAlloc == 2
MaxSeed == 1
MaxPool == 2
MaxLead == 2
MaxRank == 4
MaxDim == 3

\* ------------------------------------------------------------ arithmetic
\* Python's None, where a tuple is expected (step, input_dim).
None == <<>>

CeilDiv(a, b) == (a + b - 1) \div b

MaxOf(a, b) == IF a >= b THEN a ELSE b

MinOf(a, b) == IF a <= b THEN a ELSE b

RECURSIVE Prod(_)
Prod(s) == IF Len(s) = 0 THEN 1 ELSE Head(s) * Prod(Tail(s))

RECURSIVE SumTo(_, _)
\* f[1] + ... + f[n]
SumTo(f, n) == IF n = 0 THEN 0 ELSE f[n] + SumTo(f, n - 1)

SetMax(S) == CHOOSE m \in S : \A x \in S : x <= m

\* ---------------------------------------------------------------- tensors
Tensor(shape, data) == [shape |-> shape, data |-> data]

\* The absent result of a failed call.
NoTensor == [shape |-> <<>>, data |-> <<>>]

ndim(t) == Len(t.shape)

\* Row-major offset (1-based) of the multi-index idx (0-based) in shape.
RECURSIVE Offset0(_, _)
Offset0(shape, idx) ==
    IF Len(shape) = 0 THEN 0
    ELSE LET n == Len(shape)
         IN Offset0(SubSeq(shape, 1, n - 1), SubSeq(idx, 1, n - 1)) * shape[n]
            + idx[n]

At(t, idx) == t.data[Offset0(t.shape, idx) + 1]

\* A family of input tensors: element i of the tensor numbered `seed`.
Pattern(seed, i) == (((seed + 1) * i * i + 2 * seed + i) % 5) - 2

Image(shape, seed) == Tensor(shape, [i \in 1..Prod(shape) |-> Pattern(seed, i)])

\* 0-based multi-index of the 1-based row-major offset k in shape.
RECURSIVE Unravel(_, _)
Unravel(shape, k0) ==
    IF Len(shape) = 0 THEN <<>>
    ELSE LET n == Len(shape)
         IN Append(Unravel(SubSeq(shape, 1, n - 1), k0 \div shape[n]),
                   k0 % shape[n])

\* The elements of S in increasing order.
RECURSIVE SortedSeq(_)
SortedSeq(S) ==
    IF S = {} THEN <<>>
    ELSE LET m == CHOOSE x \in S : \A y \in S : x <= y
         IN <<m>> \o SortedSeq(S \ {m})

\* ------------------------------------------- theano.tensor.nnet.conv
\* ConvOp.getOutputShape(inshp, kshp, stride, mode):
\*   ceil((inshp + s*kshp - s*1) / stride), s = -1 for 'valid', 1 otherwise.
getOutputShape(inshp, kshp, stride, mode) ==
    LET s == IF mode = "valid" THEN -1 ELSE 1
    IN [d \in 1..2 |-> CeilDiv(inshp[d] + s * kshp[d] - s * 1, stride[d])]

\* The rows (columns) of the full convolution that conv2d keeps: border mode
\* 'valid' keeps those where the filter lies inside the image, 'full' all of
\* them; subsample then keeps every d-th of these.
KeptPositions(n, k, d, mode) ==
    LET lo == IF mode = "valid" THEN k - 1 ELSE 0
        hi == IF mode = "valid" THEN n - 1 ELSE n + k - 2
    IN SortedSeq({p \in lo..hi : (p - lo) % d = 0})

\* One element of the full (zero-padded) convolution of image b with filter f.
FullConvAt(x, W, b, f, i, j) ==
    LET C == W.shape[2]
        kh == W.shape[3]
        kw == W.shape[4]
        term(k) ==
            LET cuv == Unravel(<<C, kh, kw>>, k - 1)
                ii == i - cuv[2]
                jj == j - cuv[3]
            IN IF ii >= 0 /\ ii < x.shape[3] /\ jj >= 0 /\ jj < x.shape[4]
               THEN At(W, <<f, cuv[1], cuv[2], cuv[3]>>)
                    * At(x, <<b, cuv[1], ii, jj>>)
               ELSE 0
    IN SumTo([k \in 1..(C * kh * kw) |-> term(k)], C * kh * kw)

\* conv2d(input, filters, subsample, border_mode, filter_shape): the result
\* [ok, err, out].  It fails when the tensors are not 4-dimensional, when
\* filter_shape is not the shape of the filters, when the channels of image
\* and filters differ and when a 'valid' convolution has no output.
conv2d(x, W, subsample, border_mode, filter_shape) ==
    IF ndim(x) # 4 \/ ndim(W) # 4
    THEN [ok |-> FALSE, err |-> "TypeError", out |-> NoTensor]
    ELSE IF filter_shape # W.shape \/ x.shape[2] # W.shape[2]
    THEN [ok |-> FALSE, err |-> "ValueError", out |-> NoTensor]
    ELSE LET rows == KeptPositions(x.shape[3], W.shape[3], subsample[1],
                                   border_mode)
             cols == KeptPositions(x.shape[4], W.shape[4], subsample[2],
                                   border_mode)
             oshape == <<x.shape[1], W.shape[1], Len(rows), Len(cols)>>
             elem(k) ==
                 LET ix == Unravel(oshape, k - 1)
                 IN FullConvAt(x, W, ix[1], ix[2], rows[ix[3] + 1],
                               cols[ix[4] + 1])
         IN IF Len(rows) = 0 \/ Len(cols) = 0
            THEN [ok |-> FALSE, err |-> "ValueError", out |-> NoTensor]
            ELSE [ok |-> TRUE, err |-> "",
                  out |-> Tensor(oshape,
                                 [k \in 1..Prod(oshape) |-> elem(k)])]

\* ----------------------------------- theano.tensor.signal.downsample
\* DownsampleFactorMax.out_shape(imgshape, ds, ignore_border=False, st):
\* one of the last two dimensions.
PoolOutDim(r, ds, st) ==
    IF st >= ds THEN ((r - 1) \div st) + 1
    ELSE MaxOf(0, ((r - 1 - ds) \div st) + 1) + 1

out_shape(imgshape, ds, st) ==
    LET n == Len(imgshape)
        stv == IF st = None THEN ds ELSE st
    IN SubSeq(imgshape, 1, n - 2)
       \o <<PoolOutDim(imgshape[n - 1], ds[1], stv[1]),
            PoolOutDim(imgshape[n], ds[2], stv[2])>>

\* The rows (columns) of pooling region r: it starts at r*st and is cut at
\* the border of the image.
PoolWindow(r, ds, st, size) == (r * st)..(MinOf(r * st + ds, size) - 1)

\* max_pool_2d(input, ds, ignore_border=False, st): the result [ok, err, out].
\* All leading dimensions are treated as one batch dimension.
max_pool_2d(x, ds, st) ==
    IF ndim(x) < 2
    THEN [ok |-> FALSE, err |-> "NotImplementedError", out |-> NoTensor]
    ELSE LET n == ndim(x)
             stv == IF st = None THEN ds ELSE st
             H == x.shape[n - 1]
             Wd == x.shape[n]
             oshape == out_shape(x.shape, ds, st)
             pr == oshape[n - 1]
             pc == oshape[n]
             nb == Prod(SubSeq(x.shape, 1, n - 2))
             elem(k) ==
                 LET ix == Unravel(<<nb, pr, pc>>, k - 1)
                 IN SetMax({x.data[(ix[1] * H + i) * Wd + j + 1] :
                              i \in PoolWindow(ix[2], ds[1], stv[1], H),
                              j \in PoolWindow(ix[3], ds[2], stv[2], Wd)})
         IN [ok |-> TRUE, err |-> "",
             out |-> Tensor(oshape, [k \in 1..Prod(oshape) |-> elem(k)])]

\* ------------------------------------------------------- tensor.reshape
\* x.reshape(newshape) where one entry of newshape may be -1: that entry is
\* inferred from the number of elements; the elements keep their row-major
\* order.  The result [ok, err, out].
reshape(x, newshape) ==
    LET known == Prod([i \in 1..Len(newshape) |->
                          IF newshape[i] = -1 THEN 1 ELSE newshape[i]])
        total == Prod(x.shape)
    IN IF known = 0 \/ total % known # 0
       THEN [ok |-> FALSE, err |-> "ValueError", out |-> NoTensor]
       ELSE [ok |-> TRUE, err |-> "",
             out |-> Tensor([i \in 1..Len(newshape) |->
                                IF newshape[i] = -1 THEN total \div known
                                ELSE newshape[i]],
                            x.data)]

\* ================================================================ state
VARIABLES
    conv,     \* the Convolutional brick: its configuration attributes
    params,   \* Convolutional.params: the list of shared variables
    aux,      \* the names of the brick's auxiliary variables
    rng,      \* the state of the brick's random number generator
    pool,     \* the MaxPooling brick: its configuration attributes
    layer,    \* the ConvolutionalLayer: its attributes
    args,     \* the arguments ConvolutionalLayer.__init__ was called with
    input_,   \* the tensor the next application is given
    last      \* the last call: what was called and what it returned

vars == <<conv, params, aux, rng, pool, layer, args, input_, last>>

FILTERS == "FILTERS"

BorderModes == {"valid", "full"}

Sizes(n) == {<<h, w>> : h \in 1..n, w \in 1..n}

\* What a call left behind: the method, its argument, whether it returned,
\* the exception it raised, and what it returned or handed on.
Call(op, arg, ok, err, out, dim, fshape, stages) ==
    [op |-> op, arg |-> arg, ok |-> ok, err |-> err, out |-> out,
     dim |-> dim, filter_shape |-> fshape, stages |-> stages]

NoCall == Call("", "", TRUE, "", NoTensor, None, None, <<>>)

Returned(op, out) == Call(op, "", TRUE, "", out, None, None, <<>>)

Raised(op, err) == Call(op, "", FALSE, err, NoTensor, None, None, <<>>)

\* ======================================================== Convolutional
\* Convolutional.__init__: the attributes as given.
\* weights_init is the attribute Initializable.__init__ takes from kwargs.
Convolutional(filter_size, num_filters, num_channels, step, border_mode, weights_init) ==
    [filter_size |-> filter_size, border_mode |-> border_mode,
     num_filters |-> num_filters, num_channels |-> num_channels,
     step |-> step, weights_init |-> weights_init]

\* shared_floatx_zeros(shape, name): a shared variable filled with zeros.
shared_floatx_zeros(shape, name) ==
    [name |-> name, role |-> "", shape |-> shape,
     value |-> [i \in 1..Prod(shape) |-> 0]]

add_role(v, role) == [v EXCEPT !.role = role]

\* The shape _allocate gives the filters.
AllocShape(c) ==
    <<c.num_filters, c.num_channels, c.filter_size[1], c.filter_size[2]>>

\* A slip in apply's filter_shape: channels and filters in the other order.
FilterShapeArg_swapped(c) == <<c.num_channels, c.num_filters>> \o c.filter_size

\* The filter_shape apply passes to conv2d.
FilterShapeArg(c) == <<c.num_filters, c.num_channels>> \o c.filter_size

\* weights_init.initialize(W, rng): the values an initialization scheme
\* writes into a variable of n elements, drawing from the generator in
\* state r.
InitValues(scheme, r, n) ==
    IF scheme = "Constant" THEN [i \in 1..n |-> 1]
    ELSE [i \in 1..n |-> (((r + 2) * i + r) % 3) - 1]

RngAfter(scheme, r) ==
    IF scheme = "Constant" THEN r ELSE (r + 1) % (MaxSeed + 1)

\* The tensor a shared variable holds.
ValueOf(v) == Tensor(v.shape, v.value)

\* Convolutional._allocate
Convolutional_allocate ==
    /\ Len(params) < MaxAlloc
    /\ LET W == add_role(shared_floatx_zeros(AllocShape(conv), "W"), FILTERS)
       IN /\ params' = Append(params, W)
          /\ aux' = Append(aux, "W_norm")
    /\ last' = Returned("_allocate", NoTensor)
    /\ UNCHANGED <<conv, rng, pool, layer, args, input_>>

\* A slip in _initialize: `W = self.params[0]` in place of `W, = self.params`.
Convolutional_initialize_first ==
    IF Len(params) = 0
    THEN /\ last' = Raised("_initialize", "IndexError")
         /\ UNCHANGED <<conv, params, aux, rng, pool, layer, args, input_>>
    ELSE /\ params' = [params EXCEPT ![1].value =
                          InitValues(conv.weights_init, rng,
                                     Prod(params[1].shape))]
         /\ rng' = RngAfter(conv.weights_init, rng)
         /\ last' = Returned("_initialize", NoTensor)
         /\ UNCHANGED <<conv, aux, pool, layer, args, input_>>

\* Convolutional._initialize
Convolutional_initialize ==
    IF Len(params) # 1
    THEN /\ last' = Raised("_initialize", "ValueError")
         /\ UNCHANGED <<conv, params, aux, rng, pool, layer, args, input_>>
    ELSE /\ params' = <<[params[1] EXCEPT !.value =
                            InitValues(conv.weights_init, rng,
                                       Prod(params[1].shape))]>>
         /\ rng' = RngAfter(conv.weights_init, rng)
         /\ last' = Returned("_initialize", NoTensor)
         /\ UNCHANGED <<conv, aux, pool, layer, args, input_>>

\* A slip in apply: the step is not handed to conv2d (subsample left at its
\* default).
ConvApply_nosubsample(c, ps, x) ==
    IF Len(ps) # 1
    THEN Raised("Convolutional.apply", "ValueError")
    ELSE LET r == conv2d(x, ValueOf(ps[1]), <<1, 1>>, c.border_mode,
                         <<c.num_filters, c.num_channels>> \o c.filter_size)
         IN Call("Convolutional.apply", "", r.ok, r.err, r.out, None,
                 <<c.num_filters, c.num_channels>> \o c.filter_size, <<>>)

\* The result of Convolutional.apply(input_) for a brick c with parameters ps.
ConvApply(c, ps, x) ==
    IF Len(ps) # 1
    THEN Raised("Convolutional.apply", "ValueError")
    ELSE LET r == conv2d(x, ValueOf(ps[1]), c.step, c.border_mode,
                         FilterShapeArg(c))
         IN Call("Convolutional.apply", "", r.ok, r.err, r.out, None,
                 FilterShapeArg(c), <<>>)

\* A slip in apply: `W = self.params.pop()` in place of `W, = self.params`.
Convolutional_apply_popping ==
    /\ last' = ConvApply(conv, params, input_)
    /\ params' = IF Len(params) = 0 THEN params
                 ELSE SubSeq(params, 1, Len(params) - 1)
    /\ UNCHANGED <<conv, aux, rng, pool, layer, args, input_>>

\* Convolutional.apply
Convolutional_apply ==
    /\ last' = ConvApply(conv, params, input_)
    /\ UNCHANGED <<conv, params, aux, rng, pool, layer, args, input_>>

\* =========================================================== MaxPooling
\* MaxPooling.__init__
MaxPooling(pooling_size, step) == [pooling_size |-> pooling_size, step |-> step]

\* A slip in MaxPooling: a missing step taken to be (1, 1), the default of
\* Convolutional.
PoolApply_unitstep(p, x) ==
    LET r == max_pool_2d(x, p.pooling_size,
                         IF p.step = None THEN <<1, 1>> ELSE p.step)
    IN Call("MaxPooling.apply", "", r.ok, r.err, r.out, None, None, <<>>)

\* A slip in MaxPooling.apply: the step is not handed to max_pool_2d.
PoolApply_nostep(p, x) ==
    LET r == max_pool_2d(x, p.pooling_size, None)
    IN Call("MaxPooling.apply", "", r.ok, r.err, r.out, None, None, <<>>)

\* The result of MaxPooling.apply(input_) for a brick p.
PoolApply(p, x) ==
    LET r == max_pool_2d(x, p.pooling_size, p.step)
    IN Call("MaxPooling.apply", "", r.ok, r.err, r.out, None, None, <<>>)

\* MaxPooling.apply
MaxPooling_apply ==
    /\ last' = PoolApply(pool, input_)
    /\ UNCHANGED <<conv, params, aux, rng, pool, layer, args, input_>>

\* ============================================================ Flattener
\* A slip in Flattener.apply: the batch axis put last in the new shape.
FlattenerApply_batchlast(x) ==
    IF ndim(x) = 0
    THEN Raised("Flattener.apply", "IndexError")
    ELSE LET r == reshape(x, <<-1, x.shape[1]>>)
         IN Call("Flattener.apply", "", r.ok, r.err, r.out, None, None, <<>>)

\* The result of Flattener.apply(input_).
FlattenerApply(x) ==
    IF ndim(x) = 0
    THEN Raised("Flattener.apply", "IndexError")
    ELSE LET r == reshape(x, <<x.shape[1], -1>>)
         IN Call("Flattener.apply", "", r.ok, r.err, r.out, None, None, <<>>)

\* Flattener.apply
Flattener_apply ==
    /\ last' = FlattenerApply(input_)
    /\ UNCHANGED <<conv, params, aux, rng, pool, layer, args, input_>>

\* =================================================== ConvolutionalLayer
\* An activation's application: elementwise on the tensor.
Activation(a, x) ==
    IF a = "Rectifier"
    THEN Tensor(x.shape, [i \in 1..Len(x.data) |-> MaxOf(x.data[i], 0)])
    ELSE x

\* The attributes ConvolutionalLayer.__init__ sets on the layer, a record with
\* one field per attribute: input_dim, and application_methods through
\* Sequence.__init__ (the variables conv and pool hold the children
\* convolution and pooling).
\* A slip in the constructor: the activation put after the pooling.
ApplicationMethods_poolfirst(activation) ==
    <<"convolution.apply", "pooling.apply", activation>>

ApplicationMethods(activation) ==
    <<"convolution.apply", activation, "pooling.apply">>

ConvolutionalLayer(activation, input_dim) ==
    [input_dim |-> input_dim,
     application_methods |-> ApplicationMethods(activation)]

\* The child bricks ConvolutionalLayer.__init__ builds.
LayerConvolution(filter_size, num_filters, num_channels, conv_step, border_mode, weights_init) ==
    Convolutional(filter_size, num_filters, num_channels, conv_step,
                  border_mode, weights_init)

LayerPooling(pooling_size, pooling_step) == MaxPooling(pooling_size, pooling_step)

\* One application method of the layer applied to x: the result [ok, err, out].
ApplyMethod(m, x) ==
    IF m = "convolution.apply" THEN ConvApply(conv, params, x)
    ELSE IF m = "pooling.apply" THEN PoolApply(pool, x)
    ELSE Returned(m, Activation(m, x))

\* Sequence.apply: the application methods one after the other, each given
\* the output of the one before; an exception ends the call.
RECURSIVE RunMethods(_, _, _)
RunMethods(ms, x, done) ==
    IF Len(ms) = 0
    THEN Call("ConvolutionalLayer.apply", "", TRUE, "", x, None, None, done)
    ELSE LET r == ApplyMethod(Head(ms), x)
         IN IF r.ok
            THEN RunMethods(Tail(ms), r.out, Append(done, Head(ms)))
            ELSE Call("ConvolutionalLayer.apply", "", FALSE, r.err, NoTensor,
                      None, None, done)

\* ConvolutionalLayer.apply (inherited from Sequence)
ConvolutionalLayer_apply ==
    /\ last' = RunMethods(layer.application_methods, input_, <<>>)
    /\ UNCHANGED <<conv, params, aux, rng, pool, layer, args, input_>>

\* Brick.get_dim, the parent's: no dimension information for the name.
Brick_get_dim(name) ==
    Call("Brick.get_dim", name, FALSE, "ValueError", NoTensor, None, None, <<>>)

\* A slip in get_dim: input_dim returned for every name but 'output'.
GetDim_nodelegation(l, c, p, name) ==
    IF name = "output"
    THEN Call("get_dim", name, FALSE,
              IF l.input_dim = None THEN "TypeError" ELSE "AttributeError",
              NoTensor, None, None, <<>>)
    ELSE Call("get_dim", name, TRUE, "", NoTensor, l.input_dim, None, <<>>)

\* The result of ConvolutionalLayer.get_dim(name).
GetDim(l, c, p, name) ==
    IF name = "input_"
    THEN Call("get_dim", name, TRUE, "", NoTensor, l.input_dim, None, <<>>)
    ELSE IF name = "output"
    THEN IF l.input_dim = None
         THEN Call("get_dim", name, FALSE, "TypeError", NoTensor, None, None,
                   <<>>)
         ELSE LET conv_out_dim == getOutputShape(Tail(l.input_dim),
                                                 c.filter_size, c.step,
                                                 c.border_mode)
                  out_dim == out_shape(conv_out_dim, p.pooling_size, p.step)
              IN IF "num_filters" \in DOMAIN l
                 THEN Call("get_dim", name, TRUE, "", NoTensor,
                           <<l.num_filters, out_dim[1], out_dim[2]>>, None,
                           <<>>)
                 ELSE Call("get_dim", name, FALSE, "AttributeError", NoTensor,
                           None, None, <<>>)
    ELSE LET r == Brick_get_dim(name)
         IN Call("get_dim", name, r.ok, r.err, r.out, r.dim, None,
                 <<r.op, r.arg>>)

DimNames == {"input_", "output", "hidden", "filter_size"}

\* ConvolutionalLayer.get_dim
ConvolutionalLayer_get_dim ==
    /\ \E name \in DimNames : last' = GetDim(layer, conv, pool, name)
    /\ UNCHANGED <<conv, params, aux, rng, pool, layer, args, input_>>

\* ======================================================= specifications
NoLayer == [input_dim |-> None, application_methods |-> <<>>]

LayerArgs(filter_size, num_filters, num_channels, pooling_size, activation, conv_step, pooling_step, border_mode, input_dim) ==
    [filter_size |-> filter_size, num_filters |-> num_filters,
     num_channels |-> num_channels, pooling_size |-> pooling_size,
     activation |-> activation, conv_step |-> conv_step,
     pooling_step |-> pooling_step, border_mode |-> border_mode,
     input_dim |-> input_dim]

NoArgs == LayerArgs(None, 0, 0, None, "", None, None, "", None)

NoPool == MaxPooling(<<1, 1>>, None)

NoConv == Convolutional(<<1, 1>>, 1, 1, <<1, 1>>, "valid", "Constant")

Schemes == {"Constant", "Random"}

\* ---- SpecShape: one Convolutional brick of one channel, allocated and
\* initialized, and one image; every filter size, number of filters, step,
\* border mode and image size.
AllocatedParams(c, r) ==
    LET W == add_role(shared_floatx_zeros(AllocShape(c), "W"), FILTERS)
    IN <<[W EXCEPT !.value = InitValues(c.weights_init, r, Prod(W.shape))]>>

InitShape ==
    /\ \E fs \in Sizes(MaxFilter), nf \in 1..MaxNum, st \in Sizes(MaxStep),
          bm \in BorderModes :
          conv = Convolutional(fs, nf, 1, st, bm, "Random")
    /\ params = AllocatedParams(conv, 0)
    /\ aux = <<"W_norm">>
    /\ rng = RngAfter("Random", 0)
    /\ pool = NoPool
    /\ layer = NoLayer
    /\ args = NoArgs
    /\ \E im \in Sizes(MaxImage), seed \in 0..MaxSeed :
          input_ = Image(<<1, 1>> \o im, seed)
    /\ last = Returned("_initialize", NoTensor)

NextShape == Convolutional_apply

SpecShape == InitShape /\ [][NextShape]_vars

\* ---- Spec: the life of one Convolutional brick.  Every filter size and
\* every number of filters and channels; the images fed have any number of
\* channels, so that some do not match the brick's.
Inputs == {Image(<<1, c, MaxImage, MaxImage>>, 0) : c \in 1..MaxNum}

\* The environment hands the next input to the bricks.
Feed ==
    /\ \E x \in Inputs : input_' = x
    /\ input_' # input_
    /\ last' = NoCall
    /\ UNCHANGED <<conv, params, aux, rng, pool, layer, args>>

Init ==
    /\ \E fs \in Sizes(MaxFilter), nf \in 1..MaxNum, nc \in 1..MaxNum,
          bm \in BorderModes, wi \in Schemes :
          conv = Convolutional(fs, nf, nc, <<1, 1>>, bm, wi)
    /\ params = <<>>
    /\ aux = <<>>
    /\ rng = 0
    /\ pool = NoPool
    /\ layer = NoLayer
    /\ args = NoArgs
    /\ input_ \in Inputs
    /\ last = NoCall

Next ==
    \/ Convolutional_allocate
    \/ Convolutional_initialize
    \/ Convolutional_apply
    \/ Feed

Spec == Init /\ [][Next]_vars

\* ---- SpecLayer: the life of one ConvolutionalLayer with its two children,
\* and a Flattener.  The constructor's arguments differ from one another, so
\* that a mix-up among them shows.
LayerNumFilters == MaxNum

\* The layer has one channel and MaxNum filters.
LayerInputDim == <<1, MaxImage, MaxImage + 1>>

LayerInputs ==
    {Image(<<1, 1, h, MaxImage + 1>>, 1) :
        h \in {MaxImage - 1, MaxImage}}

FeedLayer ==
    /\ \E x \in LayerInputs : input_' = x
    /\ input_' # input_
    /\ last' = NoCall
    /\ UNCHANGED <<conv, params, aux, rng, pool, layer, args>>

InitLayer ==
    /\ \E fs \in {<<1, MaxFilter>>, <<MaxFilter, 1>>},
          cs \in {<<1, 1>>, <<MaxStep, 1>>}, bm \in BorderModes,
          ps \in {<<1, MaxPool>>, <<MaxPool, MaxPool>>},
          pst \in {None, <<1, 1>>}, idim \in {None, LayerInputDim} :
          args = LayerArgs(fs, LayerNumFilters, 1, ps,
                           "Rectifier", cs, pst, bm, idim)
    /\ layer = ConvolutionalLayer(args.activation, args.input_dim)
    /\ conv = LayerConvolution(args.filter_size, args.num_filters,
                               args.num_channels, args.conv_step,
                               args.border_mode, "Random")
    /\ pool = LayerPooling(args.pooling_size, args.pooling_step)
    /\ params = <<>>
    /\ aux = <<>>
    /\ rng = 0
    /\ input_ \in LayerInputs
    /\ last = NoCall

NextLayer ==
    \/ Convolutional_allocate
    \/ Convolutional_initialize
    \/ Convolutional_apply
    \/ MaxPooling_apply
    \/ ConvolutionalLayer_apply
    \/ ConvolutionalLayer_get_dim
    \/ Flattener_apply
    \/ FeedLayer

SpecLayer == InitLayer /\ [][NextLayer]_vars

\* ---- SpecPool: one MaxPooling brick and one input; every pooling size,
\* every step (and none), inputs of 2 and more dimensions.
RECURSIVE Shapes(_, _)
\* The shapes of n dimensions, each of size 1..d.
Shapes(n, d) ==
    IF n = 0 THEN {<<>>}
    ELSE {Append(s, k) : s \in Shapes(n - 1, d), k \in 1..d}

InitPool ==
    /\ \E ps \in Sizes(MaxPool), st \in {None} \cup Sizes(MaxStep) :
          pool = MaxPooling(ps, st)
    /\ \E n \in 0..MaxLead :
          \E lead \in Shapes(n, 2), im \in Sizes(MaxImage), seed \in 0..MaxSeed :
             input_ = Image(lead \o im, seed)
    /\ conv = NoConv
    /\ params = <<>>
    /\ aux = <<>>
    /\ rng = 0
    /\ layer = NoLayer
    /\ args = NoArgs
    /\ last = NoCall

NextPool == MaxPooling_apply

SpecPool == InitPool /\ [][NextPool]_vars

\* ---- SpecFlat: a Flattener and one input of 1 to MaxRank dimensions; its
\* output can be fed to it again.
FeedOutput ==
    /\ last.op = "Flattener.apply"
    /\ last.ok
    /\ input_' = last.out
    /\ last' = NoCall
    /\ UNCHANGED <<conv, params, aux, rng, pool, layer, args>>

InitFlat ==
    /\ \E n \in 1..MaxRank :
          \E shape \in Shapes(n, MaxDim), seed \in 0..MaxSeed :
             input_ = Image(shape, seed)
    /\ conv = NoConv
    /\ params = <<>>
    /\ aux = <<>>
    /\ rng = 0
    /\ pool = NoPool
    /\ layer = NoLayer
    /\ args = NoArgs
    /\ last = NoCall

NextFlat ==
    \/ Flattener_apply
    \/ FeedOutput

SpecFlat == InitFlat /\ [][NextFlat]_vars

\* =============================================================== claims
Zeros(n) == [i \in 1..n |-> 0]

\* C1: every filter tensor _allocate creates is zero-filled when created, has
\* the shape (num_filters, num_channels, fh, fw), the name W and the FILTERS
\* role, one per call; and the filter_shape apply passes to conv2d is that
\* same 4-tuple, the shape of the allocated W.
C1_AllocatedShapeIsDeclaredShape ==
    LET shape4 == <<conv.num_filters, conv.num_channels, conv.filter_size[1],
                    conv.filter_size[2]>>
    IN /\ \A i \in 1..Len(params) :
             /\ params[i].shape = shape4
             /\ params[i].role = FILTERS
             /\ params[i].name = "W"
             /\ Len(params[i].value) = Prod(shape4)
       /\ Len(aux) = Len(params)
       /\ last.op = "_allocate" =>
             params[Len(params)].value = Zeros(Prod(shape4))
       /\ (last.op = "Convolutional.apply" /\ Len(params) = 1) =>
             /\ last.filter_shape = shape4
             /\ last.filter_shape = params[1].shape

\* C1 witness: apply has passed the filter_shape of a brick whose four sizes
\* are not all alike, and conv2d accepted it.
C1_Witness ==
    /\ last.op = "Convolutional.apply"
    /\ last.ok
    /\ conv.num_filters # conv.num_channels
    /\ conv.filter_size[1] # conv.filter_size[2]
    /\ conv.num_filters # conv.filter_size[1]

\* C2: whenever _initialize or apply has succeeded, params holds exactly one
\* element, the filter W (no bias); called with no parameter or with more
\* than one, both fail on unpacking (ValueError) and change nothing.
C2_ExactlyOneParameter ==
    /\ (last.op \in {"_initialize", "Convolutional.apply"} /\ last.ok) =>
          /\ Len(params) = 1
          /\ params[1].name = "W"
          /\ params[1].role = FILTERS
    /\ (last.op \in {"_initialize", "Convolutional.apply"}
        /\ Len(params) # 1) =>
          /\ ~last.ok
          /\ last.err = "ValueError"

\* C2 witness: _allocate has appended twice and _initialize then failed.
C2_Witness ==
    /\ Len(params) = 2
    /\ last.op = "_initialize"
    /\ ~last.ok

\* The sizes the docstring of Convolutional.apply gives the feature map.
DocSize(image_size, filter_size, mode) ==
    IF mode = "valid" THEN image_size - filter_size + 1
    ELSE image_size + filter_size - 1

Regions(n, ds, st, size) == [r \in 0..(n - 1) |-> PoolWindow(r, ds, st, size)]

\* C4: a MaxPooling without a step returns what a MaxPooling with
\* step = pooling_size returns; its pooling regions do not overlap, and
\* with a step smaller than pooling_size neighbouring regions do overlap.
C4_DefaultStepIsPoolingSize ==
    last.op = "MaxPooling.apply" =>
        LET n == ndim(input_)
            st == IF pool.step = None THEN pool.pooling_size ELSE pool.step
        IN /\ pool.step = None =>
                 last = PoolApply(MaxPooling(pool.pooling_size,
                                             pool.pooling_size), input_)
           /\ \A d \in 1..2 :
                 LET size == input_.shape[n - 2 + d]
                     cnt == last.out.shape[n - 2 + d]
                     reg == Regions(cnt, pool.pooling_size[d], st[d], size)
                 IN /\ pool.step = None =>
                          \A r1, r2 \in 0..(cnt - 1) :
                              r1 # r2 => reg[r1] \cap reg[r2] = {}
                    /\ st[d] < pool.pooling_size[d] =>
                          \A r \in 0..(cnt - 2) :
                              reg[r] \cap reg[r + 1] # {}

\* C4 witness: a MaxPooling without a step has pooled an input that is larger
\* than its pooling region.
C4_Witness ==
    /\ last.op = "MaxPooling.apply"
    /\ pool.step = None
    /\ pool.pooling_size = <<2, 2>>
    /\ input_.shape[ndim(input_)] = 3
    /\ ndim(input_) = 3

\* C5: MaxPooling.apply returns a tensor with as many dimensions as its
\* input, whose leading dimensions have the input's sizes and whose last two
\* are no larger than the input's (the input's divided by pooling_size,
\* rounded up, when there is no step); every element of it is the maximum of
\* the input over its pooling region, in the same leading position.
C5_PoolingDownsamplesLastTwo ==
    last.op = "MaxPooling.apply" =>
        LET n == ndim(input_)
            st == IF pool.step = None THEN pool.pooling_size ELSE pool.step
            out == last.out
        IN /\ last.ok
           /\ ndim(out) = n
           /\ SubSeq(out.shape, 1, n - 2) = SubSeq(input_.shape, 1, n - 2)
           /\ \A d \in 1..2 :
                 /\ out.shape[n - 2 + d] >= 1
                 /\ out.shape[n - 2 + d] <= input_.shape[n - 2 + d]
                 /\ pool.step = None =>
                       out.shape[n - 2 + d] =
                           CeilDiv(input_.shape[n - 2 + d],
                                   pool.pooling_size[d])
           /\ Len(out.data) = Prod(out.shape)
           /\ \A k \in 1..Prod(out.shape) :
                 LET ix == Unravel(out.shape, k - 1)
                     lead == SubSeq(ix, 1, n - 2)
                     rows == PoolWindow(ix[n - 1], pool.pooling_size[1],
                                        st[1], input_.shape[n - 1])
                     cols == PoolWindow(ix[n], pool.pooling_size[2], st[2],
                                        input_.shape[n])
                     region == {At(input_, lead \o <<i, j>>) :
                                   i \in rows, j \in cols}
                 IN /\ region # {}
                    /\ out.data[k] \in region
                    /\ \A v \in region : v <= out.data[k]

\* C5 witness: a 4-dimensional input, 3 by 2 in its last two dimensions, has
\* been pooled over 2 by 2 regions.
C5_Witness ==
    /\ last.op = "MaxPooling.apply"
    /\ last.ok
    /\ input_.shape = <<2, 2, 3, 2>>
    /\ pool.pooling_size = <<2, 2>>
    /\ last.out.shape = <<2, 2, 2, 1>>

\* C6: the layer's application_methods are convolution.apply, the activation
\* and pooling.apply, in this order; its children have the configuration the
\* constructor was given; and a successful apply has run the three in order
\* and returned pooling(activation(convolution(input))), while a failed one
\* stopped at the first stage that raised.
C6_ConvolutionActivationPooling ==
    /\ layer.application_methods =
          <<"convolution.apply", args.activation, "pooling.apply">>
    /\ conv.filter_size = args.filter_size
    /\ conv.num_filters = args.num_filters
    /\ conv.num_channels = args.num_channels
    /\ conv.step = args.conv_step
    /\ conv.border_mode = args.border_mode
    /\ pool.pooling_size = args.pooling_size
    /\ pool.step = args.pooling_step
    /\ last.op = "ConvolutionalLayer.apply" =>
          LET c == ConvApply(conv, params, input_)
              a == Activation(args.activation, c.out)
              q == PoolApply(pool, a)
          IN IF last.ok
             THEN /\ last.stages = <<"convolution.apply", args.activation,
                                     "pooling.apply">>
                  /\ c.ok
                  /\ q.ok
                  /\ last.out = q.out
             ELSE /\ ~c.ok
                  /\ last.stages = <<>>
                  /\ last.err = c.err

\* C6 witness: a layer with a step, a border mode and a pooling step of its
\* own has been applied and has returned.
C6_Witness ==
    /\ last.op = "ConvolutionalLayer.apply"
    /\ last.ok
    /\ args.conv_step = <<2, 1>>
    /\ args.border_mode = "full"
    /\ args.pooling_step = <<1, 1>>
    /\ args.pooling_size = <<2, 2>>
    /\ \E i \in 1..Len(last.out.data) : last.out.data[i] > 0

Applications ==
    {"Convolutional.apply", "MaxPooling.apply", "get_dim", "Flattener.apply",
     "ConvolutionalLayer.apply"}

\* C7: no step changes the configuration of the bricks; an application or a
\* get_dim changes neither the parameters nor their number; the parameters
\* change only when _allocate appends a zero-filled W and when a successful
\* _initialize writes the values of weights_init, drawn from rng, into W.
C7_ConfigurationAndWeightsHeld ==
    [][/\ conv' = conv
       /\ pool' = pool
       /\ layer' = layer
       /\ last'.op \in Applications => params' = params /\ rng' = rng
       /\ params' # params =>
             \/ /\ last'.op = "_allocate"
                /\ Len(params') = Len(params) + 1
                /\ SubSeq(params', 1, Len(params)) = params
                /\ params'[Len(params')].value =
                      Zeros(Prod(params'[Len(params')].shape))
             \/ /\ last'.op = "_initialize"
                /\ last'.ok
                /\ Len(params') = Len(params)
                /\ params' = <<[params[1] EXCEPT !.value =
                                   InitValues(conv.weights_init, rng,
                                              Prod(params[1].shape))]>>
      ]_vars

\* C7 witness: the layer has been applied to an input while it held its one
\* allocated and initialized W.
C7_Witness ==
    /\ last.op = "ConvolutionalLayer.apply"
    /\ last.ok
    /\ Len(params) = 1
    /\ params[1].value # Zeros(Len(params[1].value))

\* C8 as stated: with input_dim given, get_dim('output') returns
\* (num_filters, h, w): the constructor's num_filters and the pooling output
\* shape of the convolution output shape.
C8_OutputDim ==
    (last.op = "get_dim" /\ last.arg = "output" /\ args.input_dim # None) =>
        LET conv_out == getOutputShape(Tail(args.input_dim), args.filter_size,
                                       args.conv_step, args.border_mode)
            out_dim == out_shape(conv_out, args.pooling_size,
                                 args.pooling_step)
        IN /\ last.ok
           /\ last.dim = <<args.num_filters, out_dim[1], out_dim[2]>>

\* C9: get_dim('input_') returns the constructor's input_dim (None when not
\* given); for any name other than 'input_' and 'output' the answer is the
\* parent's get_dim for that very name; with input_dim None, get_dim('output')
\* raises.
C9_InputDimAndDelegation ==
    last.op = "get_dim" =>
        /\ last.arg = "input_" =>
              /\ last.ok
              /\ last.dim = args.input_dim
              /\ last.stages = <<>>
        /\ last.arg \notin {"input_", "output"} =>
              /\ last.stages = <<"Brick.get_dim", last.arg>>
              /\ last.ok = Brick_get_dim(last.arg).ok
              /\ last.err = Brick_get_dim(last.arg).err
              /\ last.dim = Brick_get_dim(last.arg).dim
        /\ (last.arg = "output" /\ args.input_dim = None) =>
              /\ ~last.ok
              /\ last.dim = None
        /\ last.arg = "output" => last.stages = <<>>

\* C9 witness: get_dim has been asked for a name it does not answer itself.
C9_Witness ==
    /\ last.op = "get_dim"
    /\ last.arg = "hidden"
    /\ last.stages = <<"Brick.get_dim", "hidden">>
    /\ args.input_dim # None

\* C10: Flattener.apply of a tensor of shape (b, d1, ..., dk) returns a
\* 2-dimensional tensor of shape (b, d1*...*dk) with as many elements, in
\* which element (i0, j) is the input's element (i0, i1, ..., ik) whose
\* row-major position among (d1, ..., dk) is j; a 2-dimensional input is
\* returned as it is.
C10_FlattenKeepsBatchAndOrder ==
    last.op = "Flattener.apply" =>
        LET rest == Tail(input_.shape)
            out == last.out
        IN /\ last.ok
           /\ out.shape = <<input_.shape[1], Prod(rest)>>
           /\ Len(out.data) = Prod(input_.shape)
           /\ Prod(out.shape) = Prod(input_.shape)
           /\ \A k \in 1..Prod(input_.shape) :
                 LET ix == Unravel(input_.shape, k - 1)
                 IN At(out, <<ix[1], Offset0(rest, Tail(ix))>>)
                       = At(input_, ix)
           /\ ndim(input_) = 2 => out = input_

\* C10 witness: a 4-dimensional input of more than one example has been
\* flattened.
C10_Witness ==
    /\ last.op = "Flattener.apply"
    /\ last.ok
    /\ input_.shape = <<2, 3, 1, 2>>
    /\ last.out.shape = <<2, 6>>

\* C10 witness of the second application: the output of a flattening has been
\* flattened again.
C10_WitnessAgain ==
    /\ last.op = "Flattener.apply"
    /\ ndim(input_) = 2
    /\ input_.shape[2] > MaxDim

====
